---- MODULE Spec2Model ----
(***************************************************************************)
(* The coin ledger of edurank-glow: the profiles.coins column, the         *)
(* coin_transactions audit table and the two PL/pgSQL functions            *)
(* deduct_user_coins / add_user_coins of SQL_SETUP.sql, run by concurrent  *)
(* callers under PostgreSQL's READ COMMITTED row locking, together with    *)
(* the other write paths to profiles that the setup grants.                *)
(***************************************************************************)
EXTENDS Integers, Sequences, FiniteSets, TLC

\* ------------------------------------------------------------------ bounds
MaxCalls == 2
NDebits == 3
MaxBalance == 4
MaxQuestions == 2
MaxPending == 2
MaxQuizzes == 2
MaxStatements == 2

\* --------------------------------------------------------------- constants
\* profiles.coins and p_amount are INTEGER: 32-bit signed.
INT_MAX == 2147483647

Calls == 1..MaxCalls

\* Rows of public.profiles, and one identifier that has no row.
Users == {"u1", "u2"}
GhostId == "ghost"
UserIds == Users \cup {GhostId}

Amounts == {-1, 0, 1, 2}
NoGame == "NULL"
\* (p_reason, p_game_id) of a deduction, and p_reason of an addition.
DeductTags == {<<"game_unlock", "epic-era-battles">>, <<"test_deduction", NoGame>>}
Reasons == {"reward", "quiz_reward"}

\* Values a direct UPDATE of profiles.coins is tried with.
DirectValues == {-1, 1, INT_MAX}

\* A PL/pgSQL INTEGER variable: <<>> is NULL, <<n>> holds n.
NULL == <<>>
IsNull(v) == v = NULL
Val(v) == v[1]

VARIABLES
  profiles,           \* committed rows: id -> coins
  coin_transactions,  \* committed rows of the audit table, in commit order
  calls,              \* one record per function call (its transaction)
  row_lock,           \* id -> the call holding the row lock of that profile, 0 if free
  clock,              \* the database clock
  done_order,         \* the calls in the order they ended
  installed,          \* the file whose CREATE OR REPLACE FUNCTION statements ran last
  quiz,               \* the state of the AIQuiz component and its addCoins calls
  setup               \* the run of a database setup script

vars == <<profiles, coin_transactions, calls, row_lock, clock, done_order, installed,
          quiz, setup>>

\* The state outside the database.
outside == <<quiz, setup>>

\* The two files that define deduct_user_coins and add_user_coins.
SqlSetup == "SQL_SETUP.sql"
ExecuteSetup == "execute-setup.js"
SetupFiles == {SqlSetup, ExecuteSetup}

IdleCall ==
  [pc |-> "idle", op |-> "none", p_user_id |-> GhostId, p_amount |-> 0,
   p_reason |-> "none", p_game_id |-> NoGame, now |-> 0,
   v_current_coins |-> NULL, v_new_coins |-> NULL, outcome |-> "pending",
   raise_args |-> <<>>]

\* AIQuiz before a quiz is generated: its useState values, the number of the
\* quiz on screen, the addCoins calls awaited by handleNext, and the amounts
\* requested and credited so far.
QuizIdle ==
  [questions |-> <<>>, currentQuestion |-> 0, selectedAnswer |-> NULL,
   submitted |-> FALSE, answers |-> <<>>, showResults |-> FALSE,
   currentQuiz |-> 0, pending |-> <<>>, requested |-> <<>>, credited |-> <<>>]

\* No setup script has run.
SetupIdle ==
  [script |-> "none", pc |-> "idle", sqlContent |-> <<>>, sqlStatements |-> <<>>,
   i |-> 0, sent |-> <<>>, responses |-> <<>>,
   success |-> 0, completed |-> 0, failed |-> 0, output |-> "none"]

\* ALTER TABLE ... ADD COLUMN coins INTEGER DEFAULT 0 NOT NULL
CoinsDefault == 0

Init ==
  /\ profiles = [u \in Users |-> CoinsDefault]
  /\ coin_transactions = <<>>
  /\ calls = [c \in Calls |-> IdleCall]
  /\ row_lock = [u \in Users |-> 0]
  /\ clock = 0
  /\ done_order = <<>>
  /\ installed = SqlSetup
  /\ quiz = QuizIdle
  /\ setup = SetupIdle

\* CHECK (coins >= 0)
coins_non_negative(v) == v >= 0

\* Mutant: no row lock is waited for.
RowLockIgnored(u) == TRUE

\* Mutant: one lock for the whole table (LOCK TABLE profiles).
TableLockFree(u) == \A v \in Users : row_lock[v] = 0

\* SELECT ... FOR UPDATE and UPDATE wait while another transaction holds the row.
RowLockFree(u) == row_lock[u] = 0

\* Mutant: the UPDATE of a failed call stays in the table.
RollbackKeepsUpdate(c) ==
  IF IsNull(calls[c].v_new_coins)
  THEN profiles
  ELSE [profiles EXCEPT ![calls[c].p_user_id] = Val(calls[c].v_new_coins)]

\* The committed profiles table after the transaction of call c is rolled back.
RolledBack(c) == profiles

\* RAISE EXCEPTION, or any other error: the transaction is rolled back, its
\* row lock released and the error message is the call's outcome.
\* Mutant: an exception handler swallows the error and the call returns.
RaiseSwallowed(c, msg, args) ==
  /\ calls' = [calls EXCEPT ![c].pc = "done", ![c].outcome = "ok"]
  /\ row_lock' = [u \in Users |-> IF row_lock[u] = c THEN 0 ELSE row_lock[u]]
  /\ done_order' = Append(done_order, c)
  /\ UNCHANGED <<profiles, coin_transactions, installed, outside>>

\* args are the values of the % placeholders of the message.
RaiseFormat(c, msg, args) ==
  /\ calls' = [calls EXCEPT ![c].pc = "done", ![c].outcome = msg,
                            ![c].raise_args = args]
  /\ row_lock' = [u \in Users |-> IF row_lock[u] = c THEN 0 ELSE row_lock[u]]
  /\ done_order' = Append(done_order, c)
  /\ profiles' = RolledBack(c)
  /\ UNCHANGED <<coin_transactions, installed, outside>>

Raise(c, msg) == RaiseFormat(c, msg, <<>>)

\* Mutant: only a negative amount is refused.
BeginRefusesNegative(c, op, u, a, r, g, next) ==
  /\ \A d \in Calls : d < c => calls[d].pc # "idle"
  /\ clock' = clock + 1
  /\ LET started == [IdleCall EXCEPT !.op = op, !.p_user_id = u, !.p_amount = a,
                                     !.p_reason = r, !.p_game_id = g, !.now = clock]
     IN IF a < 0
        THEN /\ calls' = [calls EXCEPT ![c] = [started EXCEPT !.pc = "done",
                                        !.outcome = "Amount must be positive"]]
             /\ done_order' = Append(done_order, c)
        ELSE /\ calls' = [calls EXCEPT ![c] = [started EXCEPT !.pc = next]]
             /\ done_order' = done_order
  /\ UNCHANGED <<profiles, coin_transactions, row_lock, installed, outside>>

\* The caller issues the RPC; the transaction starts and now() is fixed.
Begin(c, op, u, a, r, g, next) ==
  /\ \A d \in Calls : d < c => calls[d].pc # "idle"
  /\ clock' = clock + 1
  /\ LET started == [IdleCall EXCEPT !.op = op, !.p_user_id = u, !.p_amount = a,
                                     !.p_reason = r, !.p_game_id = g, !.now = clock]
     IN IF a <= 0
        THEN /\ calls' = [calls EXCEPT ![c] = [started EXCEPT !.pc = "done",
                                        !.outcome = "Amount must be positive"]]
             /\ done_order' = Append(done_order, c)
        ELSE /\ calls' = [calls EXCEPT ![c] = [started EXCEPT !.pc = next]]
             /\ done_order' = done_order
  /\ UNCHANGED <<profiles, coin_transactions, row_lock, installed, outside>>

\* Mutant: the existence of the account is tested before the amount.
deduct_begin_user_first(c, u, a, r, g) ==
  /\ calls[c].pc = "idle"
  /\ IF u \notin DOMAIN profiles
     THEN /\ \A d \in Calls : d < c => calls[d].pc # "idle"
          /\ clock' = clock + 1
          /\ calls' = [calls EXCEPT ![c] =
                [IdleCall EXCEPT !.op = "deduct_user_coins", !.p_user_id = u,
                                 !.p_amount = a, !.p_reason = r, !.p_game_id = g,
                                 !.now = clock, !.pc = "done",
                                 !.outcome = "User not found"]]
          /\ done_order' = Append(done_order, c)
          /\ UNCHANGED <<profiles, coin_transactions, row_lock, installed, outside>>
     ELSE Begin(c, "deduct_user_coins", u, a, r, g, "select")

\* deduct_user_coins: call and "Validate amount is positive".
deduct_begin(c, u, a, r, g) ==
  /\ calls[c].pc = "idle"
  /\ Begin(c, "deduct_user_coins", u, a, r, g, "select")

\* Mutant: the SELECT without FOR UPDATE, which neither waits nor locks.
deduct_select_without_lock(c) ==
  /\ calls[c].pc = "select"
  /\ LET u == calls[c].p_user_id
     IN IF u \notin DOMAIN profiles
        THEN Raise(c, "User not found") /\ UNCHANGED clock
        ELSE /\ calls' = [calls EXCEPT ![c].pc = "locked",
                                       ![c].v_current_coins = <<profiles[u]>>]
             /\ UNCHANGED <<profiles, coin_transactions, row_lock, clock, done_order,
                            installed, outside>>

\* Mutant: a missing row reads as 0 coins (COALESCE) instead of NULL.
deduct_select_missing_as_zero(c) ==
  /\ calls[c].pc = "select"
  /\ LET u == calls[c].p_user_id
     IN IF u \notin DOMAIN profiles
        THEN /\ calls' = [calls EXCEPT ![c].pc = "locked",
                                       ![c].v_current_coins = <<0>>]
             /\ UNCHANGED <<profiles, coin_transactions, row_lock, clock, done_order,
                            installed, outside>>
        ELSE /\ RowLockFree(u)
             /\ row_lock' = [row_lock EXCEPT ![u] = c]
             /\ calls' = [calls EXCEPT ![c].pc = "locked",
                                       ![c].v_current_coins = <<profiles[u]>>]
             /\ UNCHANGED <<profiles, coin_transactions, clock, done_order, installed, outside>>

\* deduct_user_coins: SELECT coins INTO v_current_coins ... FOR UPDATE, and
\* "Check if user exists".
deduct_select(c) ==
  /\ calls[c].pc = "select"
  /\ LET u == calls[c].p_user_id
     IN IF u \notin DOMAIN profiles
        THEN Raise(c, "User not found") /\ UNCHANGED clock
        ELSE /\ RowLockFree(u)
             /\ row_lock' = [row_lock EXCEPT ![u] = c]
             /\ calls' = [calls EXCEPT ![c].pc = "locked",
                                       ![c].v_current_coins = <<profiles[u]>>]
             /\ UNCHANGED <<profiles, coin_transactions, clock, done_order, installed, outside>>

InsufficientCoins(cur, amt) == cur < amt

\* The values the 'Insufficient coins' message is formatted with:
\* SQL_SETUP.sql raises 'Insufficient coins. Have: %, Need: %' with
\* v_current_coins and p_amount, execute-setup.js raises 'Insufficient coins'.
InsufficientArgs(file, cur, amt) ==
  IF file = SqlSetup THEN <<cur, amt>> ELSE <<>>

\* Mutant: a deduction that leaves coins takes one more as a fee.
NewCoinsAfterDeductWithFee(cur, amt) == IF cur > amt THEN cur - amt - 1 ELSE cur - amt

NewCoinsAfterDeduct(cur, amt) == cur - amt

\* Mutant: the entry records the balance before the deduction.
deduct_row_with_old_balance(c, new) ==
  [id |-> c, user_id |-> calls[c].p_user_id, action |-> "coin_deduction",
   details |-> [amount |-> calls[c].p_amount, reason |-> calls[c].p_reason,
                game_id |-> calls[c].p_game_id,
                new_balance |-> Val(calls[c].v_current_coins)],
   timestamp |-> calls[c].now]

\* The row deduct_user_coins inserts into coin_transactions.
deduct_row(c, new) ==
  [id |-> c, user_id |-> calls[c].p_user_id, action |-> "coin_deduction",
   details |-> [amount |-> calls[c].p_amount, reason |-> calls[c].p_reason,
                game_id |-> calls[c].p_game_id,
                new_balance |-> new],
   timestamp |-> calls[c].now]

\* The row add_user_coins inserts into coin_transactions.
add_row(c, new) ==
  [id |-> c, user_id |-> calls[c].p_user_id, action |-> "coin_addition",
   details |-> [amount |-> calls[c].p_amount, reason |-> calls[c].p_reason,
                new_balance |-> new],
   timestamp |-> calls[c].now]

\* Mutant: the INSERT replaces the latest entry instead of adding one.
InsertReplacesLast(table, row) ==
  IF table = <<>> THEN <<row>> ELSE [table EXCEPT ![Len(table)] = row]

\* Mutant: the entry is inserted twice.
InsertTwice(table, row) == Append(Append(table, row), row)

\* INSERT INTO public.coin_transactions
InsertTransaction(table, row) == Append(table, row)

\* Mutant: the commit does not release the row lock.
CommitKeepsLock(c, new, row) ==
  /\ profiles' = [profiles EXCEPT ![calls[c].p_user_id] = new]
  /\ coin_transactions' = InsertTransaction(coin_transactions, row)
  /\ calls' = [calls EXCEPT ![c].pc = "done", ![c].outcome = "ok",
                            ![c].v_new_coins = <<new>>]
  /\ done_order' = Append(done_order, c)
  /\ UNCHANGED <<row_lock, clock, installed, outside>>

\* INSERT, RETURN v_new_coins and the commit of the call's transaction: the
\* UPDATE of profiles and the inserted row become visible together.
Commit(c, new, row) ==
  /\ profiles' = [profiles EXCEPT ![calls[c].p_user_id] = new]
  /\ coin_transactions' = InsertTransaction(coin_transactions, row)
  /\ calls' = [calls EXCEPT ![c].pc = "done", ![c].outcome = "ok",
                            ![c].v_new_coins = <<new>>]
  /\ row_lock' = [u \in Users |-> IF row_lock[u] = c THEN 0 ELSE row_lock[u]]
  /\ done_order' = Append(done_order, c)
  /\ UNCHANGED <<clock, installed, outside>>

\* Mutant: an over-deduction is clamped to 0 instead of being refused.
deduct_finish_clamped(c) ==
  /\ calls[c].pc = "locked"
  /\ calls[c].op = "deduct_user_coins"
  /\ LET cur == Val(calls[c].v_current_coins)
         amt == calls[c].p_amount
         new == IF cur < amt THEN 0 ELSE cur - amt
     IN Commit(c, new, deduct_row(c, new))

\* Mutant: a deduction already logged with the same arguments is not made again.
deduct_finish_once(c) ==
  /\ calls[c].pc = "locked"
  /\ calls[c].op = "deduct_user_coins"
  /\ LET cur == Val(calls[c].v_current_coins)
         amt == calls[c].p_amount
         new == NewCoinsAfterDeduct(cur, amt)
         logged == \E i \in 1..Len(coin_transactions) :
                     /\ coin_transactions[i].user_id = calls[c].p_user_id
                     /\ coin_transactions[i].action = "coin_deduction"
                     /\ coin_transactions[i].details.amount = amt
                     /\ coin_transactions[i].details.reason = calls[c].p_reason
                     /\ coin_transactions[i].details.game_id = calls[c].p_game_id
     IN IF logged
        THEN /\ calls' = [calls EXCEPT ![c].pc = "done", ![c].outcome = "ok",
                                       ![c].v_new_coins = <<cur>>]
             /\ row_lock' = [u \in Users |-> IF row_lock[u] = c THEN 0 ELSE row_lock[u]]
             /\ done_order' = Append(done_order, c)
             /\ UNCHANGED <<profiles, coin_transactions, clock, installed, outside>>
        ELSE IF InsufficientCoins(cur, amt)
        THEN /\ RaiseFormat(c, "Insufficient coins",
                              InsufficientArgs(installed, cur, amt))
             /\ UNCHANGED clock
        ELSE Commit(c, new, deduct_row(c, new))

\* deduct_user_coins: "Check if user has sufficient coins", "Deduct coins",
\* "Log the transaction" and RETURN v_new_coins.
deduct_finish(c) ==
  /\ calls[c].pc = "locked"
  /\ calls[c].op = "deduct_user_coins"
  /\ LET cur == Val(calls[c].v_current_coins)
         amt == calls[c].p_amount
         new == NewCoinsAfterDeduct(cur, amt)
     IN IF InsufficientCoins(cur, amt)
        THEN /\ RaiseFormat(c, "Insufficient coins",
                              InsufficientArgs(installed, cur, amt))
             /\ UNCHANGED clock
        ELSE IF ~coins_non_negative(new)
        THEN Raise(c, "violates check constraint") /\ UNCHANGED clock
        ELSE Commit(c, new, deduct_row(c, new))

\* add_user_coins: call and "Validate amount is positive".
add_begin(c, u, a, r) ==
  /\ calls[c].pc = "idle"
  /\ Begin(c, "add_user_coins", u, a, r, NoGame, "update")

\* coins + p_amount in a 32-bit INTEGER
AddOverflows(cur, amt) == amt > INT_MAX - cur

\* Mutant: the amount is added twice.
NewCoinsAfterAddTwice(cur, amt) == cur + amt + amt

NewCoinsAfterAdd(cur, amt) == cur + amt

\* cur + amt reduced to 32 bits, for a sum above INT_MAX.
Wrap32(cur, amt) == (cur - INT_MAX) + (amt - INT_MAX) - 2

\* Mutant: coins + p_amount wraps around instead of raising.
add_update_wrapping(c) ==
  /\ calls[c].pc = "update"
  /\ LET u == calls[c].p_user_id
         amt == calls[c].p_amount
     IN IF u \notin DOMAIN profiles
        THEN Raise(c, "User not found") /\ UNCHANGED clock
        ELSE /\ RowLockFree(u)
             /\ row_lock' = [row_lock EXCEPT ![u] = c]
             /\ calls' = [calls EXCEPT ![c].pc = "locked",
                    ![c].v_new_coins =
                       IF AddOverflows(profiles[u], amt)
                       THEN <<Wrap32(profiles[u], amt)>>
                       ELSE <<NewCoinsAfterAdd(profiles[u], amt)>>]
             /\ UNCHANGED <<profiles, coin_transactions, clock, done_order, installed, outside>>

\* add_user_coins: UPDATE ... SET coins = coins + p_amount ... RETURNING coins,
\* and "Check if user exists".
add_update(c) ==
  /\ calls[c].pc = "update"
  /\ LET u == calls[c].p_user_id
         amt == calls[c].p_amount
     IN IF u \notin DOMAIN profiles
        THEN Raise(c, "User not found") /\ UNCHANGED clock
        ELSE /\ RowLockFree(u)
             /\ IF AddOverflows(profiles[u], amt)
                THEN Raise(c, "integer out of range") /\ UNCHANGED clock
                ELSE /\ row_lock' = [row_lock EXCEPT ![u] = c]
                     /\ calls' = [calls EXCEPT ![c].pc = "locked",
                            ![c].v_new_coins = <<NewCoinsAfterAdd(profiles[u], amt)>>]
                     /\ UNCHANGED <<profiles, coin_transactions, clock, done_order, installed, outside>>

\* add_user_coins: "Log the transaction" and RETURN v_new_coins.
add_finish(c) ==
  /\ calls[c].pc = "locked"
  /\ calls[c].op = "add_user_coins"
  /\ LET new == Val(calls[c].v_new_coins) IN Commit(c, new, add_row(c, new))

\* Mutant: the failure is reported but the balance the call computed is kept.
tx_abort_keeps_balance(c) ==
  /\ calls[c].pc = "locked"
  /\ calls' = [calls EXCEPT ![c].pc = "done", ![c].outcome = "aborted"]
  /\ row_lock' = [u \in Users |-> IF row_lock[u] = c THEN 0 ELSE row_lock[u]]
  /\ done_order' = Append(done_order, c)
  /\ profiles' = [profiles EXCEPT ![calls[c].p_user_id] =
                    IF IsNull(calls[c].v_new_coins) THEN 0 ELSE Val(calls[c].v_new_coins)]
  /\ UNCHANGED <<coin_transactions, clock, installed, outside>>

\* A storage failure in the transaction, or the cancellation of its statement
\* once the caller has gone, after the row was locked (before that the
\* transaction has read and written nothing): "Automatic rollback on error".
tx_abort(c) ==
  /\ calls[c].pc = "locked"
  /\ Raise(c, "aborted")
  /\ UNCHANGED clock

\* An UPDATE of one profiles row outside the two functions: it waits for the
\* row lock, is refused by the CHECK constraint, and commits on its own.
UpdateProfileCoins(u, v) ==
  /\ u \in DOMAIN profiles
  /\ RowLockFree(u)
  /\ profiles' = IF coins_non_negative(v) THEN [profiles EXCEPT ![u] = v] ELSE profiles
  /\ UNCHANGED <<coin_transactions, calls, row_lock, clock, done_order, installed, outside>>

\* Policy "Users can update own profile": FOR UPDATE TO authenticated
\* USING (auth.uid() = id) WITH CHECK (auth.uid() = id), every column included.
user_update_own_profile(uid, id, v) ==
  /\ uid = id
  /\ UpdateProfileCoins(id, v)

\* The update_record tool of the service-role client, as documented:
\* table "profiles", filter {id}, data {coins}.
update_record(table, id, v) ==
  /\ table = "profiles"
  /\ UpdateProfileCoins(id, v)

LedgerStep ==
  \E c \in Calls :
    \/ \E u \in UserIds, a \in Amounts, t \in DeductTags :
         deduct_begin(c, u, a, t[1], t[2])
    \/ deduct_select(c)
    \/ deduct_finish(c)
    \/ \E u \in UserIds, a \in Amounts, r \in Reasons : add_begin(c, u, a, r)
    \/ add_update(c)
    \/ add_finish(c)
    \/ tx_abort(c)

DirectStep ==
  \E id \in Users, v \in DirectValues :
    \/ \E uid \in Users : user_update_own_profile(uid, id, v)
    \/ update_record("profiles", id, v)

Next == LedgerStep \/ DirectStep

Spec == Init /\ [][Next]_vars

\* The ledger alone: only the two functions act.
SpecLedger == Init /\ [][LedgerStep]_vars

\* The backend's calls of the two functions, and a signed-in user of the
\* frontend acting on public.profiles with the authenticated role.
ClientStep ==
  \E uid \in Users, id \in Users, v \in DirectValues :
    user_update_own_profile(uid, id, v)

SpecClient == Init /\ [][LedgerStep \/ ClientStep]_vars

\* The ledger alone, set up from either file.
InitSetup ==
  /\ profiles = [u \in Users |-> CoinsDefault]
  /\ coin_transactions = <<>>
  /\ calls = [c \in Calls |-> IdleCall]
  /\ row_lock = [u \in Users |-> 0]
  /\ clock = 0
  /\ done_order = <<>>
  /\ installed \in SetupFiles
  /\ quiz = QuizIdle
  /\ setup = SetupIdle

SpecSetup == InitSetup /\ [][LedgerStep]_vars

\* N = NDebits deductions of one amount a on one account holding B coins,
\* a <= B < N * a, all called and none yet at its SELECT; B was credited by an
\* earlier add_user_coins call (entry 0).  No storage failure, no other caller.
DebitAccount == "u1"

InitDebits ==
  \E B \in 1..MaxBalance, a \in 1..MaxBalance :
    /\ a <= B
    /\ NDebits * a > B
    /\ profiles = [u \in Users |-> IF u = DebitAccount THEN B ELSE CoinsDefault]
    /\ coin_transactions =
         <<[id |-> 0, user_id |-> DebitAccount, action |-> "coin_addition",
            details |-> [amount |-> B, reason |-> "reward", new_balance |-> B],
            timestamp |-> 0]>>
    /\ calls = [c \in 1..NDebits |->
                 [IdleCall EXCEPT !.pc = "select", !.op = "deduct_user_coins",
                                  !.p_user_id = DebitAccount, !.p_amount = a,
                                  !.p_reason = "game_unlock",
                                  !.p_game_id = "epic-era-battles", !.now = c]]
    /\ row_lock = [u \in Users |-> 0]
    /\ clock = NDebits + 1
    /\ done_order = <<>>
    /\ installed = SqlSetup
    /\ quiz = QuizIdle
    /\ setup = SetupIdle

DebitsStep == \E c \in DOMAIN calls : deduct_select(c) \/ deduct_finish(c)

SpecDebits == InitDebits /\ [][DebitsStep]_vars

\* One account that already holds B coins (credited by an earlier
\* add_user_coins call, entry 0) and one identifier without a row; the calls
\* use the default reasons.
FundedAccounts == {DebitAccount, GhostId}

SeedEntries(B) ==
  IF B = CoinsDefault THEN <<>>
  ELSE <<[id |-> 0, user_id |-> DebitAccount, action |-> "coin_addition",
          details |-> [amount |-> B, reason |-> "reward", new_balance |-> B],
          timestamp |-> 0]>>

InitFunded ==
  \E B \in 0..MaxBalance :
    /\ profiles = [u \in Users |-> IF u = DebitAccount THEN B ELSE CoinsDefault]
    /\ coin_transactions = SeedEntries(B)
    /\ calls = [c \in Calls |-> IdleCall]
    /\ row_lock = [u \in Users |-> 0]
    /\ clock = 1
    /\ done_order = <<>>
    /\ installed = SqlSetup
    /\ quiz = QuizIdle
    /\ setup = SetupIdle

FundedStep ==
  \E c \in Calls :
    \/ \E u \in FundedAccounts, a \in Amounts :
         deduct_begin(c, u, a, "game_unlock", NoGame)
    \/ deduct_select(c)
    \/ deduct_finish(c)
    \/ \E u \in FundedAccounts, a \in Amounts : add_begin(c, u, a, "reward")
    \/ add_update(c)
    \/ add_finish(c)
    \/ tx_abort(c)

SpecFunded == InitFunded /\ [][FundedStep]_vars

\* The funded account holds a balance at or just below the largest INTEGER.
InitWide ==
  \E k \in 0..MaxBalance :
    /\ profiles = [u \in Users |-> IF u = DebitAccount THEN INT_MAX - k ELSE CoinsDefault]
    /\ coin_transactions = SeedEntries(INT_MAX - k)
    /\ calls = [c \in Calls |-> IdleCall]
    /\ row_lock = [u \in Users |-> 0]
    /\ clock = 1
    /\ done_order = <<>>
    /\ installed = SqlSetup
    /\ quiz = QuizIdle
    /\ setup = SetupIdle

SpecWide == InitWide /\ [][FundedStep]_vars

\* Calls with valid amounts on the two accounts, under a fair scheduler: a
\* call whose next statement can run is not left waiting for ever.
ValidAmounts == {a \in Amounts : a > 0}

FairStep ==
  \E c \in Calls :
    \/ \E u \in Users, a \in ValidAmounts :
         deduct_begin(c, u, a, "game_unlock", NoGame)
    \/ deduct_select(c)
    \/ deduct_finish(c)
    \/ \E u \in Users, a \in ValidAmounts : add_begin(c, u, a, "reward")
    \/ add_update(c)
    \/ add_finish(c)
    \/ tx_abort(c)

\* The statements of call c.
CallStep(c) == deduct_select(c) \/ deduct_finish(c) \/ add_update(c) \/ add_finish(c)

SpecFair ==
  /\ InitFunded
  /\ [][FairStep]_vars
  /\ \A c \in Calls : WF_vars(CallStep(c))

\* ------------------------------------------------------------- AIQuiz.tsx
\* The ledger is not touched by the component's own steps.
ledger == <<profiles, coin_transactions, calls, row_lock, clock, done_order, installed>>

\* Option indexes; a question is modelled by its correctAnswer.
Options == {0, 1}
QuestionLists == UNION {[1..n -> Options] : n \in 1..MaxQuestions}

\* Coins per correct answer.
CoinsPerCorrect == 10

\* Which screen the component renders.
ResultsShown == quiz.showResults /\ Len(quiz.questions) > 0
FormShown == ~ResultsShown /\ Len(quiz.questions) = 0
QuestionShown == ~ResultsShown /\ Len(quiz.questions) > 0

\* handleGenerateQuiz, with bytezService.generateQuiz returning qs.
handleGenerateQuiz(qs) ==
  /\ FormShown
  /\ quiz.currentQuiz < MaxQuizzes
  /\ quiz' = [quiz EXCEPT !.questions = qs, !.currentQuestion = 0,
                          !.selectedAnswer = NULL, !.answers = <<>>,
                          !.submitted = FALSE, !.showResults = FALSE,
                          !.currentQuiz = @ + 1]
  /\ UNCHANGED <<ledger, setup>>

handleSelectAnswer(index) ==
  /\ QuestionShown
  /\ ~quiz.submitted
  /\ quiz' = [quiz EXCEPT !.selectedAnswer = <<index>>]
  /\ UNCHANGED <<ledger, setup>>

\* 'Submit Answer' is rendered while the question is not submitted; without a
\* selected answer the handler only shows a toast.
handleSubmitAnswer ==
  /\ QuestionShown
  /\ ~quiz.submitted
  /\ ~IsNull(quiz.selectedAnswer)
  /\ quiz' = [quiz EXCEPT !.answers = Append(quiz.answers, Val(quiz.selectedAnswer)),
                          !.submitted = TRUE]
  /\ UNCHANGED <<ledger, setup>>

\* answers.filter((answer, idx) => answer === questions[idx].correctAnswer).length
correctCount(answers, questions) ==
  Cardinality({idx \in 1..Len(answers) : answers[idx] = questions[idx]})

\* Mutant: the count is taken from the answers before the last one.
handleNext_without_last ==
  /\ QuestionShown
  /\ quiz.submitted
  /\ IF quiz.currentQuestion < Len(quiz.questions) - 1
     THEN quiz' = [quiz EXCEPT !.currentQuestion = @ + 1, !.selectedAnswer = NULL,
                               !.submitted = FALSE]
     ELSE /\ Len(quiz.pending) < MaxPending
          /\ LET coinsEarned ==
                   correctCount(SubSeq(quiz.answers, 1, Len(quiz.answers) - 1),
                                quiz.questions) * CoinsPerCorrect
                 call == [quiz |-> quiz.currentQuiz, amount |-> coinsEarned]
             IN quiz' = [quiz EXCEPT !.pending = Append(@, call),
                                     !.requested = Append(@, call)]
  /\ UNCHANGED <<ledger, setup>>

\* handleNext up to its await: 'Next Question' / 'Finish Quiz' is rendered once
\* the question is submitted and stays active while addCoins is awaited.
handleNext ==
  /\ QuestionShown
  /\ quiz.submitted
  /\ IF quiz.currentQuestion < Len(quiz.questions) - 1
     THEN quiz' = [quiz EXCEPT !.currentQuestion = @ + 1, !.selectedAnswer = NULL,
                               !.submitted = FALSE]
     ELSE /\ Len(quiz.pending) < MaxPending
          /\ LET coinsEarned == correctCount(quiz.answers, quiz.questions) * CoinsPerCorrect
                 call == [quiz |-> quiz.currentQuiz, amount |-> coinsEarned]
             IN quiz' = [quiz EXCEPT !.pending = Append(@, call),
                                     !.requested = Append(@, call)]
  /\ UNCHANGED <<ledger, setup>>

\* pending without its i-th call.
Settled(i) ==
  SubSeq(quiz.pending, 1, i - 1) \o SubSeq(quiz.pending, i + 1, Len(quiz.pending))

\* The await of handleNext returns: the credit was applied (a credit takes a
\* strictly positive amount), then setShowResults(true).
addCoins_resolved(i) ==
  /\ i \in 1..Len(quiz.pending)
  /\ quiz.pending[i].amount > 0
  /\ quiz' = [quiz EXCEPT !.pending = Settled(i),
                          !.credited = Append(@, quiz.pending[i]),
                          !.showResults = TRUE]
  /\ UNCHANGED <<ledger, setup>>

\* The await of handleNext throws: catch logs the error, then
\* setShowResults(true).
addCoins_rejected(i) ==
  /\ i \in 1..Len(quiz.pending)
  /\ quiz' = [quiz EXCEPT !.pending = Settled(i), !.showResults = TRUE]
  /\ UNCHANGED <<ledger, setup>>

RECURSIVE forEachCorrect(_, _, _)
forEachCorrect(answers, questions, idx) ==
  IF idx = 0 THEN 0
  ELSE forEachCorrect(answers, questions, idx - 1)
       + (IF answers[idx] = questions[idx] THEN 1 ELSE 0)

\* calculateScore and the coinsEarned of the results screen.
calculateScore == forEachCorrect(quiz.answers, quiz.questions, Len(quiz.answers))
coinsEarnedShown == calculateScore * CoinsPerCorrect

\* 'New Quiz' on the results screen.
resetQuiz ==
  /\ ResultsShown
  /\ quiz' = [quiz EXCEPT !.questions = <<>>, !.currentQuestion = 0,
                          !.selectedAnswer = NULL, !.answers = <<>>,
                          !.submitted = FALSE, !.showResults = FALSE]
  /\ UNCHANGED <<ledger, setup>>

QuizStep ==
  \/ \E qs \in QuestionLists : handleGenerateQuiz(qs)
  \/ \E index \in Options : handleSelectAnswer(index)
  \/ handleSubmitAnswer
  \/ handleNext
  \/ \E i \in 1..MaxPending : addCoins_resolved(i)
  \/ \E i \in 1..MaxPending : addCoins_rejected(i)
  \/ resetQuiz

SpecQuiz == Init /\ [][QuizStep]_vars

\* ------------------------------------------------------ the setup scripts
\* The text of an SQL file as a sequence of tokens <<kind, k, part>>: a "--"
\* comment line, a piece of SQL text, a semicolon, a $$ quote, a line break;
\* k is the statement the token belongs to (0 for a line break).
NewLine == <<"nl", 0, 0>>

\* CREATE ... ; on its own, as the second GRANT of SQL_SETUP.sql.
PlainStatement(k) == << <<"sql", k, 1>>, <<"semi", k, 1>>, NewLine >>

\* A statement under a "-- ..." comment line, as CREATE TABLE coin_transactions.
CommentedStatement(k) == << <<"comment", k, 0>>, NewLine >> \o PlainStatement(k)

\* CREATE FUNCTION ... AS $$ ... ; ... $$ LANGUAGE plpgsql;
FunctionStatement(k) ==
  << <<"sql", k, 1>>, <<"dollar", k, 1>>, <<"sql", k, 2>>, <<"semi", k, 1>>,
     NewLine, <<"sql", k, 3>>, <<"dollar", k, 2>>, <<"sql", k, 4>>,
     <<"semi", k, 2>>, NewLine >>

StatementKinds == {"plain", "commented", "function"}

StatementText(kind, k) ==
  IF kind = "plain" THEN PlainStatement(k)
  ELSE IF kind = "commented" THEN CommentedStatement(k)
  ELSE FunctionStatement(k)

RECURSIVE FileText(_, _)
FileText(kinds, n) ==
  IF n = 0 THEN <<>> ELSE FileText(kinds, n - 1) \o StatementText(kinds[n], n)

\* The SQL files tried: 1..MaxStatements statements of any kind.
SqlFiles ==
  {FileText(kinds, Len(kinds)) :
     kinds \in UNION {[1..n -> StatementKinds] : n \in 1..MaxStatements}}

\* sqlContent.split(';')
RECURSIVE split(_, _, _)
split(content, i, piece) ==
  IF i > Len(content) THEN <<piece>>
  ELSE IF content[i][1] = "semi" THEN <<piece>> \o split(content, i + 1, <<>>)
  ELSE split(content, i + 1, Append(piece, content[i]))

RECURSIVE trimStart(_)
trimStart(stmt) ==
  IF stmt # <<>> /\ stmt[1] = NewLine THEN trimStart(Tail(stmt)) ELSE stmt

RECURSIVE trimEnd(_)
trimEnd(stmt) ==
  IF stmt # <<>> /\ stmt[Len(stmt)] = NewLine
  THEN trimEnd(SubSeq(stmt, 1, Len(stmt) - 1)) ELSE stmt

\* stmt.trim()
trim(stmt) == trimEnd(trimStart(stmt))

\* stmt.startsWith('--')
startsWithComment(stmt) == stmt[1][1] = "comment"

\* sqlContent.split(';').map((stmt) => stmt.trim())
\*   .filter((stmt) => stmt.length > 0 && !stmt.startsWith('--'))
sqlStatementsOf(content) ==
  LET pieces == split(content, 1, <<>>)
      trimmed == [j \in 1..Len(pieces) |-> trim(pieces[j])]
  IN SelectSeq(trimmed, LAMBDA stmt : Len(stmt) > 0 /\ ~startsWithComment(stmt))

\* What fetch does with a statement: an ok response, a response that is not
\* ok, or a thrown network error.
Responses == {"ok", "not_ok", "throw"}

\* setup-database.js reads SQL_SETUP.sql and cuts it into statements.
setup_database_read(content) ==
  /\ setup.pc = "idle"
  /\ setup' = [setup EXCEPT !.script = "setup-database.js", !.pc = "loop",
                            !.sqlContent = content,
                            !.sqlStatements = sqlStatementsOf(content)]
  /\ UNCHANGED <<ledger, quiz>>

\* executeSql: a response that is not ok is thrown and caught like a network
\* error.
executeSql(response) == [success |-> response = "ok"]

\* One turn of the loop of setupDatabase.
setupDatabase_loop(response) ==
  /\ setup.script = "setup-database.js"
  /\ setup.pc = "loop"
  /\ setup.i < Len(setup.sqlStatements)
  /\ LET sql == setup.sqlStatements[setup.i + 1]
         result == executeSql(response)
     IN setup' = [setup EXCEPT
                    !.sent = Append(@, sql),
                    !.responses = Append(@, response),
                    !.completed = IF result.success THEN @ + 1 ELSE @,
                    !.failed = IF result.success THEN @ ELSE @ + 1,
                    !.i = @ + 1]
  /\ UNCHANGED <<ledger, quiz>>

\* The summary of setupDatabase and process.exit(exitCode).
setupDatabase_exit ==
  /\ setup.script = "setup-database.js"
  /\ setup.pc = "loop"
  /\ setup.i = Len(setup.sqlStatements)
  /\ setup' = [setup EXCEPT !.pc = "finished",
                            !.output = IF setup.failed = 0 THEN "exit 0" ELSE "exit 1"]
  /\ UNCHANGED <<ledger, quiz>>

\* execute-setup.js: the first MaxStatements entries of its sqlStatements array.
executeDatabaseSetup_start ==
  /\ setup.pc = "idle"
  /\ setup' = [setup EXCEPT !.script = "execute-setup.js", !.pc = "loop",
                            !.sqlStatements =
                               [k \in 1..MaxStatements |-> << <<"sql", k, 1>> >>]]
  /\ UNCHANGED <<ledger, quiz>>

\* One turn of the loop of executeDatabaseSetup: success++ in both branches of
\* if (response.ok), failed++ in catch.
executeDatabaseSetup_loop(response) ==
  /\ setup.script = "execute-setup.js"
  /\ setup.pc = "loop"
  /\ setup.i < Len(setup.sqlStatements)
  /\ setup' = [setup EXCEPT
                 !.sent = Append(@, setup.sqlStatements[setup.i + 1]),
                 !.responses = Append(@, response),
                 !.success = IF response = "throw" THEN @
                             ELSE IF response = "ok" THEN @ + 1
                             ELSE @ + 1,
                 !.failed = IF response = "throw" THEN @ + 1 ELSE @,
                 !.i = @ + 1]
  /\ UNCHANGED <<ledger, quiz>>

\* SETUP RESULTS and the closing message.
executeDatabaseSetup_results ==
  /\ setup.script = "execute-setup.js"
  /\ setup.pc = "loop"
  /\ setup.i = Len(setup.sqlStatements)
  /\ setup' = [setup EXCEPT !.pc = "finished",
                 !.output = IF setup.failed = 0
                            THEN "All database configuration complete"
                            ELSE "Some operations need manual execution"]
  /\ UNCHANGED <<ledger, quiz>>

ScriptStep ==
  \/ \E content \in SqlFiles : setup_database_read(content)
  \/ \E response \in Responses : setupDatabase_loop(response)
  \/ setupDatabase_exit
  \/ executeDatabaseSetup_start
  \/ \E response \in Responses : executeDatabaseSetup_loop(response)
  \/ executeDatabaseSetup_results

SpecScripts == Init /\ [][ScriptStep]_vars

\* ------------------------------------------------------------------ claims

Done(c) == calls[c].pc = "done"
Succeeded(c) == calls[c].outcome = "ok"
IsDeduct(c) == calls[c].op = "deduct_user_coins"
IsAdd(c) == calls[c].op = "add_user_coins"

\* The entries of one account, in the order they were committed.
EntriesOf(u) == SelectSeq(coin_transactions, LAMBDA e : e.user_id = u)

\* A step that ends a deduction of more than the balance.
C1_OverDebitRejected ==
  \A c \in Calls :
    (/\ IsDeduct(c)
     /\ calls[c].pc = "locked"
     /\ calls'[c].pc = "done"
     /\ calls[c].p_amount > profiles[calls[c].p_user_id])
    => /\ calls'[c].outcome # "ok"
       /\ profiles' = profiles

\* C1: after any sequence or interleaving of deduct_user_coins and
\* add_user_coins calls every balance is >= 0, and a deduction whose amount
\* exceeds the balance ends with an error and leaves every balance as it was:
\* it is rejected, not clamped to 0.
C1_BalanceNeverNegative ==
  /\ [](\A u \in Users : profiles[u] >= 0)
  /\ [][C1_OverDebitRejected]_vars

C1_Witness ==
  \E c \in Calls :
    /\ IsDeduct(c)
    /\ calls[c].outcome = "Insufficient coins"
    /\ profiles[calls[c].p_user_id] >= 1

\* The balance B and the amount a of the scenario, and how its calls ended.
DebitsB == coin_transactions[1].details.new_balance
DebitsA == calls[1].p_amount
DebitsOk == {c \in DOMAIN calls : Succeeded(c)}
DebitsFailed == DOMAIN calls \ DebitsOk

\* C2: when the N concurrent deductions of amount a on a balance B
\* (a <= B < N * a) have all ended, exactly B \div a of them succeeded, the
\* others failed with 'Insufficient coins', and the balance is
\* B - (B \div a) * a.
C2_ConcurrentDebits ==
  (\A c \in DOMAIN calls : Done(c))
  => /\ Cardinality(DebitsOk) = DebitsB \div DebitsA
     /\ \A c \in DebitsFailed : calls[c].outcome = "Insufficient coins"
     /\ profiles[DebitAccount] = DebitsB - (DebitsB \div DebitsA) * DebitsA

C2_Witness ==
  /\ \A c \in DOMAIN calls : Done(c)
  /\ Cardinality(DebitsOk) >= 2
  /\ Cardinality(DebitsFailed) >= 1

\* What a call returns when it runs alone on a balance.
SerialOutcome(c, bal) ==
  IF calls[c].p_amount <= 0 THEN "Amount must be positive"
  ELSE IF calls[c].p_user_id \notin Users THEN "User not found"
  ELSE IF IsDeduct(c) /\ bal < calls[c].p_amount THEN "Insufficient coins"
  ELSE IF IsAdd(c) /\ calls[c].p_amount > INT_MAX - bal THEN "integer out of range"
  ELSE "ok"

SerialReturn(c, bal) ==
  IF IsDeduct(c) THEN bal - calls[c].p_amount ELSE bal + calls[c].p_amount

RECURSIVE SerialBalance(_, _)
SerialBalance(u, n) ==
  IF n = 0 THEN CoinsDefault
  ELSE LET c == done_order[n]
           before == SerialBalance(u, n - 1)
       IN IF /\ calls[c].p_user_id = u
             /\ calls[c].outcome # "aborted"
             /\ SerialOutcome(c, before) = "ok"
          THEN SerialReturn(c, before)
          ELSE before

RECURSIVE SumAmounts(_)
SumAmounts(S) ==
  IF S = {} THEN 0
  ELSE LET c == CHOOSE x \in S : TRUE
       IN calls[c].p_amount + SumAmounts(S \ {c})

OkCalls(u, op) ==
  {c \in Calls : Succeeded(c) /\ calls[c].p_user_id = u /\ calls[c].op = op}

\* C3: the calls, taken one at a time in the order they ended, give every
\* call the outcome and the returned balance it had in the concurrent run, and
\* give every account its stored balance, which is the successful additions
\* minus the successful deductions.
C3_Serializable ==
  /\ \A n \in 1..Len(done_order) :
       LET c == done_order[n]
           before == SerialBalance(calls[c].p_user_id, n - 1)
       IN calls[c].outcome # "aborted"
          => /\ calls[c].outcome = SerialOutcome(c, before)
             /\ Succeeded(c) => calls[c].v_new_coins = <<SerialReturn(c, before)>>
  /\ \A u \in Users :
       /\ profiles[u] = SerialBalance(u, Len(done_order))
       /\ profiles[u] = CoinsDefault + SumAmounts(OkCalls(u, "add_user_coins"))
                                     - SumAmounts(OkCalls(u, "deduct_user_coins"))

\* Two calls on one account overlapped: the one called second ended first.
C3_Witness ==
  /\ MaxCalls >= 2
  /\ Len(done_order) >= 2
  /\ done_order[1] > done_order[2]
  /\ Succeeded(done_order[1]) /\ Succeeded(done_order[2])
  /\ calls[done_order[1]].p_user_id = calls[done_order[2]].p_user_id

\* The new_balance of the latest entry of an account.
LastBalance(u) ==
  IF EntriesOf(u) = <<>> THEN CoinsDefault
  ELSE EntriesOf(u)[Len(EntriesOf(u))].details.new_balance

HasEntry(c) == \E i \in 1..Len(coin_transactions) : coin_transactions[i].id = c

\* C4: in every committed state an account's balance is the new_balance of
\* its latest entry (the column default when it has none), and a call has an
\* entry exactly when it succeeded: a call that failed or was given up at any
\* step leaves neither a balance change nor an entry.
C4_AllOrNothing ==
  /\ \A u \in Users : profiles[u] = LastBalance(u)
  /\ \A c \in Calls : HasEntry(c) <=> Succeeded(c)

\* An addition given up after its UPDATE, before its INSERT.
C4_Witness ==
  \E c \in Calls :
    /\ calls[c].outcome = "aborted"
    /\ ~IsNull(calls[c].v_new_coins)
    /\ profiles[calls[c].p_user_id] # Val(calls[c].v_new_coins)

\* A step that changes a balance appends the entry of that change.
C5_BalanceChangeIsLogged ==
  \A u \in Users :
    profiles'[u] # profiles[u]
    => /\ Len(coin_transactions') = Len(coin_transactions) + 1
       /\ coin_transactions'[Len(coin_transactions')].user_id = u
       /\ coin_transactions'[Len(coin_transactions')].details.new_balance = profiles'[u]

\* C5: every change of a balance comes with one new entry of that account
\* whose new_balance is the new balance.
C5_OnlyLedgerChangesBalance == [][C5_BalanceChangeIsLogged]_vars

\* The effect of one entry on a replayed balance.
ApplyEntry(bal, e) ==
  IF e.action = "coin_addition" THEN bal + e.details.amount
  ELSE bal - e.details.amount

RECURSIVE ReplayBalance(_, _)
ReplayBalance(es, n) ==
  IF n = 0 THEN 0 ELSE ApplyEntry(ReplayBalance(es, n - 1), es[n])

\* C6: replaying an account's entries in order from 0 gives after each entry
\* its new_balance, and after the last one the stored balance.
C6_ReplayReproducesLog ==
  \A u \in Users :
    LET es == EntriesOf(u)
    IN /\ \A n \in 1..Len(es) : ReplayBalance(es, n) = es[n].details.new_balance
       /\ ReplayBalance(es, Len(es)) = profiles[u]

\* C7: of two entries of one account, the one committed first never has the
\* later timestamp.
C7_TimestampsMonotonic ==
  \A u \in Users :
    LET es == EntriesOf(u)
    IN \A i, j \in 1..Len(es) : i < j => es[i].timestamp <= es[j].timestamp

\* A step keeps every entry where and as it is.
C8_EntriesKept ==
  /\ Len(coin_transactions') >= Len(coin_transactions)
  /\ \A i \in 1..Len(coin_transactions) : coin_transactions'[i] = coin_transactions[i]

C9_OneEntryPerSuccess ==
  /\ \A u \in UserIds :
       Len(EntriesOf(u)) = Cardinality({c \in Calls : Succeeded(c) /\ calls[c].p_user_id = u})
  /\ \A c \in Calls :
       Succeeded(c) =>
         Cardinality({i \in 1..Len(coin_transactions) :
                        coin_transactions[i].id = c
                        /\ coin_transactions[i].user_id = calls[c].p_user_id}) = 1
  /\ \A c \in Calls : (Done(c) /\ ~Succeeded(c)) => ~HasEntry(c)

C9_Witness ==
  \E c, d \in Calls :
    /\ Succeeded(c)
    /\ Done(d) /\ calls[d].outcome = "Insufficient coins"
    /\ calls[c].p_user_id = calls[d].p_user_id

\* A step that ends a deduction holding the row lock.
C10_DebitEffect ==
  \A c \in Calls :
    (IsDeduct(c) /\ calls[c].pc = "locked" /\ calls'[c].pc = "done")
    => LET u == calls[c].p_user_id
           B == profiles[u]
           a == calls[c].p_amount
           last == coin_transactions'[Len(coin_transactions')]
       IN /\ (B >= a /\ calls'[c].outcome # "aborted") => calls'[c].outcome = "ok"
          /\ calls'[c].outcome = "ok"
             => /\ B >= a
                /\ calls'[c].v_new_coins = <<B - a>>
                /\ profiles' = [profiles EXCEPT ![u] = B - a]
                /\ Len(coin_transactions') = Len(coin_transactions) + 1
                /\ last.user_id = u
                /\ last.action = "coin_deduction"
                /\ last.details = [amount |-> a, reason |-> calls[c].p_reason,
                                   game_id |-> calls[c].p_game_id,
                                   new_balance |-> B - a]

\* C10: a deduction of amount > 0 that ends, unaborted, on an account holding
\* B >= amount succeeds; a successful deduction returns B - amount, stores it,
\* and appends one coin_deduction entry with the amount, the reason, the game
\* id and new_balance = the returned value.
C10_DebitReturnsNewBalance == [][C10_DebitEffect]_vars

C10_Witness ==
  \E c \in Calls :
    /\ IsDeduct(c) /\ Succeeded(c)
    /\ calls[c].v_new_coins = <<1>>
    /\ calls[c].p_game_id # NoGame
    /\ HasEntry(c)

\* A step that ends an addition holding the row lock.
C11_CreditEffect ==
  \A c \in Calls :
    (IsAdd(c) /\ calls[c].pc = "locked" /\ calls'[c].pc = "done")
    => LET u == calls[c].p_user_id
           B == profiles[u]
           a == calls[c].p_amount
           last == coin_transactions'[Len(coin_transactions')]
       IN /\ calls'[c].outcome # "aborted" => calls'[c].outcome = "ok"
          /\ calls'[c].outcome = "ok"
             => /\ a > 0
                /\ calls'[c].v_new_coins = <<B + a>>
                /\ profiles' = [profiles EXCEPT ![u] = B + a]
                /\ Len(coin_transactions') = Len(coin_transactions) + 1
                /\ last.user_id = u
                /\ last.action = "coin_addition"
                /\ last.details = [amount |-> a, reason |-> calls[c].p_reason,
                                   new_balance |-> B + a]

C12_InsufficientReportsBoth ==
  \A c \in Calls :
    (/\ IsDeduct(c) /\ Done(c)
     /\ ~IsNull(calls[c].v_current_coins)
     /\ calls[c].outcome # "aborted"
     /\ Val(calls[c].v_current_coins) < calls[c].p_amount)
    => /\ calls[c].outcome = "Insufficient coins"
       /\ calls[c].raise_args = <<Val(calls[c].v_current_coins), calls[c].p_amount>>

\* A step in which a call is issued with an amount <= 0.
C13_InvalidAmountRefused ==
  \A c \in Calls :
    (calls[c].pc = "idle" /\ calls'[c].pc # "idle" /\ calls'[c].p_amount <= 0)
    => /\ calls'[c].pc = "done"
       /\ calls'[c].outcome = "Amount must be positive"
       /\ IsNull(calls'[c].v_new_coins)
       /\ UNCHANGED <<profiles, coin_transactions, row_lock>>

\* C13: a deduction or an addition called with an amount <= 0 ends at once
\* with 'Amount must be positive', whatever the account identifier and the
\* balance, and no call with such an amount is ever in any other state.
C13_InvalidAmount ==
  /\ [][C13_InvalidAmountRefused]_vars
  /\ [](\A c \in Calls :
          (calls[c].pc # "idle" /\ calls[c].p_amount <= 0)
          => (Done(c) /\ calls[c].outcome = "Amount must be positive"))

\* A deduction of 0 on a missing account and an addition of -1 on an account
\* that holds coins, both refused.
C13_Witness ==
  \E c, d \in Calls :
    /\ IsDeduct(c) /\ calls[c].p_amount = 0 /\ calls[c].p_user_id = GhostId
    /\ calls[c].outcome = "Amount must be positive"
    /\ IsAdd(d) /\ calls[d].p_amount = -1 /\ calls[d].p_user_id \in Users
    /\ calls[d].outcome = "Amount must be positive"
    /\ profiles[calls[d].p_user_id] >= 2

\* A step taken by a call with amount > 0 on an identifier without a row.
C14_MissingAccountRefused ==
  \A c \in Calls :
    (/\ calls[c].pc \in {"select", "update"}
     /\ calls[c].p_user_id \notin DOMAIN profiles
     /\ calls'[c] # calls[c])
    => /\ calls'[c].pc = "done"
       /\ calls'[c].outcome = "User not found"
       /\ UNCHANGED <<profiles, coin_transactions, row_lock>>

\* C14: a deduction or an addition of amount > 0 on an identifier that has no
\* profiles row ends with 'User not found' at its first statement, it can
\* always take that step, and no row is ever created: the set of accounts
\* stays the same and no entry bears the identifier.
C14_AccountNotFound ==
  /\ [][C14_MissingAccountRefused]_vars
  /\ [](/\ DOMAIN profiles = Users
        /\ \A i \in 1..Len(coin_transactions) : coin_transactions[i].user_id \in Users
        /\ \A c \in Calls :
             (calls[c].pc # "idle" /\ calls[c].p_amount > 0
              /\ calls[c].p_user_id \notin Users)
             => \/ /\ calls[c].pc = "select"
                   /\ ENABLED deduct_select(c)
                \/ /\ calls[c].pc = "update"
                   /\ ENABLED add_update(c)
                \/ /\ Done(c)
                   /\ calls[c].outcome = "User not found")

C14_Witness ==
  \E c, d \in Calls :
    /\ IsDeduct(c) /\ IsAdd(d)
    /\ calls[c].p_user_id = GhostId /\ calls[d].p_user_id = GhostId
    /\ calls[c].p_amount > 0 /\ calls[d].p_amount > 0
    /\ calls[c].outcome = "User not found"
    /\ calls[d].outcome = "User not found"

\* The messages the two functions raise, and the failure of the transaction.
ErrorOutcomes ==
  {"Amount must be positive", "User not found", "Insufficient coins",
   "violates check constraint", "integer out of range", "aborted"}

\* A step that ends a call with an error.
C15_FailureChangesNothing ==
  \A c \in Calls :
    (~Done(c) /\ calls'[c].pc = "done" /\ calls'[c].outcome # "ok")
    => /\ profiles' = profiles
       /\ DOMAIN profiles' = DOMAIN profiles
       /\ coin_transactions' = coin_transactions

\* C15: the step that ends a deduction or an addition with an error
\* ('Amount must be positive', 'User not found', 'Insufficient coins', or a
\* failure of its transaction) leaves every balance, the set of accounts and
\* the log exactly as they were before the call.
C15_FailedCallLeavesState == [][C15_FailureChangesNothing]_vars

\* An addition whose transaction failed after its UPDATE and a deduction
\* refused for insufficient coins, on an account that holds coins.
C15_Witness ==
  \E c, d \in Calls :
    /\ IsAdd(c) /\ calls[c].outcome = "aborted"
    /\ IsDeduct(d) /\ calls[d].outcome = "Insufficient coins"
    /\ calls[c].p_user_id = calls[d].p_user_id
    /\ profiles[calls[c].p_user_id] >= 1
    /\ Len(coin_transactions) = 1

\* The call c fails in the step that ends it: its amount is not positive,
\* its account is missing, or it deducts more than the account holds.
FailsNow(c) ==
  \/ calls'[c].p_amount <= 0
  \/ calls'[c].p_user_id \notin DOMAIN profiles
  \/ IsDeduct(c) /\ profiles[calls[c].p_user_id] < calls[c].p_amount

\* A step that ends a call.
C16_EndsWithErrorOrEffect ==
  \A c \in Calls :
    (~Done(c) /\ calls'[c].pc = "done")
    => /\ FailsNow(c) => calls'[c].outcome \in ErrorOutcomes
       /\ calls'[c].outcome \in ErrorOutcomes
          => coin_transactions' = coin_transactions
       /\ calls'[c].outcome \notin ErrorOutcomes
          => /\ calls'[c].outcome = "ok"
             /\ ~IsNull(calls'[c].v_new_coins)
             /\ profiles'[calls'[c].p_user_id] = Val(calls'[c].v_new_coins)
             /\ Len(coin_transactions') = Len(coin_transactions) + 1
             /\ coin_transactions'[Len(coin_transactions')].id = c

\* C16: a call that fails ends with the error message as its outcome, never
\* with 'ok'; a call ends with 'ok' only when it returns the balance it
\* stored and logged; and a call that has ended always has one of the two.
C16_FailuresReachCaller ==
  /\ [][C16_EndsWithErrorOrEffect]_vars
  /\ [](\A c \in Calls :
          /\ Done(c) => calls[c].outcome \in ErrorOutcomes \cup {"ok"}
          /\ ~Done(c) => calls[c].outcome = "pending")

C16_Witness ==
  \E c, d \in Calls :
    /\ IsAdd(c) /\ calls[c].outcome = "User not found"
    /\ IsDeduct(d) /\ calls[d].outcome = "Insufficient coins"
    /\ calls[d].raise_args = <<1, 2>>

\* The place of the entry of call c among the entries of its account, and the
\* balance of the account before that entry.
EntryIndex(c) ==
  CHOOSE i \in 1..Len(EntriesOf(calls[c].p_user_id)) :
    EntriesOf(calls[c].p_user_id)[i].id = c

BalanceBefore(c) ==
  IF EntryIndex(c) = 1 THEN CoinsDefault
  ELSE EntriesOf(calls[c].p_user_id)[EntryIndex(c) - 1].details.new_balance

\* c succeeded, its entry is the latest of its account, and d is the opposite
\* operation with the same amount on the same account.
Undoes(d, c) ==
  /\ c # d
  /\ Succeeded(c)
  /\ calls[d].p_user_id = calls[c].p_user_id
  /\ calls[d].p_amount = calls[c].p_amount
  /\ {calls[c].op, calls[d].op} = {"deduct_user_coins", "add_user_coins"}
  /\ EntryIndex(c) = Len(EntriesOf(calls[c].p_user_id))
  /\ profiles[calls[c].p_user_id] = Val(calls[c].v_new_coins)

\* A step that ends, holding the row lock, the call that undoes the latest one.
C17_SecondCallRestores ==
  \A c, d \in Calls :
    (calls[d].pc = "locked" /\ calls'[d].pc = "done" /\ Undoes(d, c))
    => /\ calls'[d].outcome # "aborted" => calls'[d].outcome = "ok"
       /\ calls'[d].outcome = "ok"
          => /\ profiles'[calls[d].p_user_id] = BalanceBefore(c)
             /\ calls'[d].v_new_coins = <<BalanceBefore(c)>>

\* C17: when a successful deduction of a is followed on the same account,
\* with no other change between them, by an addition of a, or a successful
\* addition of a by a deduction of a, the second call succeeds unless its
\* transaction fails, returns the balance B held before the first call, and
\* B is the stored balance again.
C17_RoundTrip == [][C17_SecondCallRestores]_vars

\* A deduction of 2 from 3 coins, then an addition of 2 that returns 3.
C17_Witness ==
  /\ Len(done_order) = 2
  /\ IsDeduct(done_order[1]) /\ Succeeded(done_order[1])
  /\ IsAdd(done_order[2]) /\ Succeeded(done_order[2])
  /\ calls[done_order[1]].p_amount = 2
  /\ calls[done_order[2]].p_amount = 2
  /\ calls[done_order[1]].v_new_coins = <<1>>
  /\ calls[done_order[2]].v_new_coins = <<3>>
  /\ profiles[DebitAccount] = 3

\* No call on account u other than c is past its locking statement.
NoneInProgressOn(u, c) ==
  \A d \in Calls \ {c} : calls[d].pc = "locked" => calls[d].p_user_id # u

\* The only call on its account.
AloneOnAccount(c) ==
  \A d \in Calls \ {c} : calls[d].pc # "idle" => calls[d].p_user_id # calls[c].p_user_id

\* A step of a call leaves every other account as it was.
C18_OtherAccountsUntouched ==
  \A c \in Calls :
    calls'[c] # calls[c]
    => \A B \in Users \ {calls'[c].p_user_id} :
         /\ profiles'[B] = profiles[B]
         /\ row_lock'[B] = row_lock[B]
         /\ SelectSeq(coin_transactions', LAMBDA e : e.user_id = B) = EntriesOf(B)

\* C18: a call at its locking statement can take it unless a call on the
\* same account holds the row, whatever calls on other accounts are doing; a
\* row lock is only ever held by a call on that account; a call that is the
\* only one on its account has the outcome and the returned balance of a call
\* run alone; and no step of a call changes the balance, the lock or the
\* entries of another account.
C18_AccountsIndependent ==
  /\ [][C18_OtherAccountsUntouched]_vars
  /\ [](\A c \in Calls :
          /\ (calls[c].pc = "select" /\ NoneInProgressOn(calls[c].p_user_id, c))
             => ENABLED deduct_select(c)
          /\ (calls[c].pc = "update" /\ NoneInProgressOn(calls[c].p_user_id, c))
             => ENABLED add_update(c)
          /\ \A u \in Users : row_lock[u] = c => calls[c].p_user_id = u
          /\ (Done(c) /\ calls[c].outcome # "aborted" /\ AloneOnAccount(c))
             => /\ calls[c].outcome = SerialOutcome(c, CoinsDefault)
                /\ Succeeded(c)
                   => /\ calls[c].v_new_coins = <<SerialReturn(c, CoinsDefault)>>
                      /\ LastBalance(calls[c].p_user_id) = SerialReturn(c, CoinsDefault))

\* Two calls hold the row locks of two accounts at the same time.
C18_Witness ==
  \E c, d \in Calls :
    /\ calls[c].pc = "locked" /\ calls[d].pc = "locked"
    /\ row_lock[calls[c].p_user_id] = c
    /\ row_lock[calls[d].p_user_id] = d
    /\ calls[c].p_user_id # calls[d].p_user_id

InProgress(c) == calls[c].pc \in {"select", "update", "locked"}

\* C19: while a call is in progress some call can take its next statement
\* (the calls never all wait for each other), and under fair scheduling
\* every call that was issued ends, with 'ok' and a balance or with an error.
C19_NoDeadlock ==
  /\ []((\E c \in Calls : InProgress(c)) => (\E c \in Calls : ENABLED CallStep(c)))
  /\ \A c \in Calls :
       InProgress(c) ~> (Done(c) /\ calls[c].outcome \in ErrorOutcomes \cup {"ok"})

\* A call waits for the row lock another call holds.
C19_Witness ==
  \E c, d \in Calls :
    /\ calls[c].pc \in {"select", "update"}
    /\ calls[d].pc = "locked"
    /\ row_lock[calls[c].p_user_id] = d
    /\ ~ENABLED CallStep(c)

\* d is called with the arguments of the successful deduction c.
RepeatsDeduct(d, c) ==
  /\ c # d
  /\ IsDeduct(c) /\ IsDeduct(d)
  /\ Succeeded(c)
  /\ calls[d].p_user_id = calls[c].p_user_id
  /\ calls[d].p_amount = calls[c].p_amount
  /\ calls[d].p_reason = calls[c].p_reason
  /\ calls[d].p_game_id = calls[c].p_game_id

\* A step that ends the repetition of a successful deduction while the
\* balance suffices.
C20_RepeatDeductsAgain ==
  \A c, d \in Calls :
    (/\ calls[d].pc = "locked" /\ calls'[d].pc = "done"
     /\ RepeatsDeduct(d, c)
     /\ profiles[calls[d].p_user_id] >= calls[d].p_amount
     /\ calls'[d].outcome # "aborted")
    => /\ calls'[d].outcome = "ok"
       /\ profiles'[calls[d].p_user_id] = profiles[calls[d].p_user_id] - calls[d].p_amount
       /\ calls'[d].v_new_coins = <<profiles[calls[d].p_user_id] - calls[d].p_amount>>
       /\ Len(coin_transactions') = Len(coin_transactions) + 1
       /\ coin_transactions'[Len(coin_transactions')].id = d

\* C20: a deduction called again with the account, amount, reason and game
\* id of one that succeeded, while the balance suffices, deducts the amount
\* again and appends its own entry; and no call is run a second time: a call
\* ends once, and a failed call never gets an entry later.
C20_DebitNotIdempotent ==
  /\ [][C20_RepeatDeductsAgain]_vars
  /\ [](/\ \A i, j \in 1..Len(done_order) : i # j => done_order[i] # done_order[j]
        /\ \A c \in Calls : (Done(c) /\ ~Succeeded(c)) => ~HasEntry(c))

\* Two deductions of 2 with the same arguments from 4 coins: both logged.
C20_Witness ==
  \E c, d \in Calls :
    /\ RepeatsDeduct(d, c) /\ Succeeded(d)
    /\ calls[c].p_amount = 2
    /\ profiles[calls[c].p_user_id] = 0
    /\ HasEntry(c) /\ HasEntry(d)
    /\ Len(coin_transactions) = 3

\* A step that changes a balance is the commit of a call of one of the two
\* functions.
C21_ChangedByFunctionCall ==
  profiles' # profiles
  => \E c \in Calls :
       /\ calls[c].pc = "locked"
       /\ calls'[c].pc = "done"
       /\ calls'[c].outcome = "ok"
       /\ profiles' = [profiles EXCEPT ![calls[c].p_user_id] = Val(calls'[c].v_new_coins)]

\* C21: with the backend calling the two functions and signed-in users
\* acting with the authenticated role, every change of a balance is the
\* commit of a deduct_user_coins or add_user_coins call, never the effect of
\* a user's own statement on public.profiles.
C21_FrontendCannotChangeBalance == [][C21_ChangedByFunctionCall]_vars

\* The error of a call by the order of the tests, on a balance bal: the
\* amount first, then the account, then (for a deduction) the balance.
FirstError(c, bal) ==
  IF calls[c].p_amount <= 0 THEN "Amount must be positive"
  ELSE IF calls[c].p_user_id \notin DOMAIN profiles THEN "User not found"
  ELSE IF IsDeduct(c) /\ bal < calls[c].p_amount THEN "Insufficient coins"
  ELSE "ok"

\* C22: a call that ended without a failure of its transaction has the
\* outcome of the first test it fails, in the order amount, account,
\* balance: amount <= 0 on a missing account gives 'Amount must be positive'
\* for both functions, and amount > 0 on a missing account gives 'User not
\* found', never 'Insufficient coins'.
C22_ErrorPrecedence ==
  \A c \in Calls :
    (Done(c) /\ calls[c].outcome # "aborted")
    => /\ calls[c].outcome =
            FirstError(c, IF IsNull(calls[c].v_current_coins) THEN 0
                          ELSE Val(calls[c].v_current_coins))
       /\ (calls[c].p_amount <= 0 /\ calls[c].p_user_id = GhostId)
          => calls[c].outcome = "Amount must be positive"
       /\ (calls[c].p_amount > 0 /\ calls[c].p_user_id = GhostId)
          => calls[c].outcome = "User not found"
       /\ calls[c].outcome = "Insufficient coins"
          => (calls[c].p_amount > 0 /\ calls[c].p_user_id \in DOMAIN profiles)

\* On the missing account: a deduction of -1 and a deduction of 2.
C22_Witness ==
  \E c, d \in Calls :
    /\ IsDeduct(c) /\ calls[c].p_user_id = GhostId /\ calls[c].p_amount = -1
    /\ calls[c].outcome = "Amount must be positive"
    /\ IsDeduct(d) /\ calls[d].p_user_id = GhostId /\ calls[d].p_amount = 2
    /\ calls[d].outcome = "User not found"

\* A step of an addition at its UPDATE whose sum would exceed INT_MAX.
C23_OverflowRefused ==
  \A c \in Calls :
    (/\ calls[c].pc = "update"
     /\ calls'[c] # calls[c]
     /\ calls[c].p_user_id \in DOMAIN profiles
     /\ calls[c].p_amount > INT_MAX - profiles[calls[c].p_user_id])
    => /\ calls'[c].pc = "done"
       /\ calls'[c].outcome = "integer out of range"
       /\ profiles' = profiles
       /\ coin_transactions' = coin_transactions

\* C23: every stored balance and every logged new_balance lies in
\* 0..2^31 - 1, and an addition whose sum would exceed 2^31 - 1 ends with an
\* error and leaves every balance and the log unchanged.
C23_NoWrap ==
  /\ [][C23_OverflowRefused]_vars
  /\ [](/\ \A u \in Users : profiles[u] >= 0 /\ profiles[u] <= INT_MAX
        /\ \A i \in 1..Len(coin_transactions) :
             /\ coin_transactions[i].details.new_balance >= 0
             /\ coin_transactions[i].details.new_balance <= INT_MAX
        /\ \A c \in Calls :
             calls[c].outcome = "integer out of range" => ~HasEntry(c))

\* An addition of 2 refused at 2^31 - 2 coins and an addition of 1 accepted.
C23_Witness ==
  \E c, d \in Calls :
    /\ IsAdd(c) /\ calls[c].p_amount = 2
    /\ calls[c].outcome = "integer out of range"
    /\ IsAdd(d) /\ calls[d].p_amount = 1 /\ Succeeded(d)
    /\ profiles[DebitAccount] = INT_MAX

\* The addCoins calls made for quiz number q.
RequestsOf(q) == SelectSeq(quiz.requested, LAMBDA r : r.quiz = q)

\* C24: for one quiz at most one addCoins call is made, also when 'Finish
\* Quiz' is activated again while the first call is awaited.
C24_CreditRequestedOnce ==
  \A q \in 1..MaxQuizzes : Len(RequestsOf(q)) <= 1

\* C25: when the results screen states '+N Coins Earned' with N > 0, a
\* credit of N coins was applied for the quiz on screen.
C25_ShownCoinsWereCredited ==
  (ResultsShown /\ coinsEarnedShown > 0)
  => \E i \in 1..Len(quiz.credited) :
       /\ quiz.credited[i].quiz = quiz.currentQuiz
       /\ quiz.credited[i].amount = coinsEarnedShown

\* The questions of the quiz on screen whose submitted answer is the correct one.
CorrectlyAnswered ==
  {idx \in 1..Len(quiz.questions) :
     idx <= Len(quiz.answers) /\ quiz.answers[idx] = quiz.questions[idx]}

\* A step in which handleNext calls addCoins.
C26_RequestIsTenPerCorrect ==
  Len(quiz'.requested) = Len(quiz.requested) + 1
  => /\ Len(quiz.answers) = Len(quiz.questions)
     /\ quiz'.requested[Len(quiz'.requested)].amount = 10 * Cardinality(CorrectlyAnswered)

\* C26: handleNext calls addCoins when every question, the last included,
\* has its submitted answer, with 10 times the number of questions answered
\* correctly; and the results screen shows the amount of every addCoins call
\* made for that quiz.
C26_AmountMatchesScore ==
  /\ [][C26_RequestIsTenPerCorrect]_vars
  /\ [](ResultsShown
        => /\ coinsEarnedShown = 10 * Cardinality(CorrectlyAnswered)
           /\ \A i \in 1..Len(quiz.requested) :
                quiz.requested[i].quiz = quiz.currentQuiz
                => quiz.requested[i].amount = coinsEarnedShown)

\* A quiz of two questions, only the last answered correctly: 10 coins
\* requested, credited and shown.
C26_Witness ==
  /\ ResultsShown
  /\ Len(quiz.questions) = 2
  /\ quiz.answers[1] # quiz.questions[1]
  /\ quiz.answers[2] = quiz.questions[2]
  /\ coinsEarnedShown = 10
  /\ \E i \in 1..Len(quiz.credited) :
       quiz.credited[i] = [quiz |-> quiz.currentQuiz, amount |-> 10]

\* C27: every addCoins call of the quiz flow passes a strictly positive
\* amount.
C27_CreditAmountPositive ==
  \A i \in 1..Len(quiz.requested) : quiz.requested[i].amount > 0

\* How many statements of the run got the response r.
CountResponses(r) ==
  Cardinality({j \in 1..Len(setup.responses) : setup.responses[j] = r})

\* C28: when execute-setup.js has finished, the number it reports as
\* executed is the number of statements whose response was ok, every other
\* statement is counted as failed, and 'All database configuration complete'
\* was printed only if every response was ok.
C28_ExecutedMeansAccepted ==
  (setup.script = "execute-setup.js" /\ setup.pc = "finished")
  => /\ setup.success = CountResponses("ok")
     /\ setup.failed = Len(setup.responses) - CountResponses("ok")
     /\ setup.output = "All database configuration complete"
        => CountResponses("ok") = Len(setup.responses)

\* The SQL of a piece of text: its tokens without comment lines and line breaks.
SqlOf(text) == SelectSeq(text, LAMBDA t : t[1] \notin {"comment", "nl"})

\* Statement k of the file as the server reads it: its SQL up to the
\* semicolon that ends it.
FileStatement(k) ==
  LET sql == SqlOf(SelectSeq(setup.sqlContent, LAMBDA t : t[2] = k))
  IN SubSeq(sql, 1, Len(sql) - 1)

FileStatementCount ==
  Cardinality({k \in 1..MaxStatements :
                 \E j \in 1..Len(setup.sqlContent) : setup.sqlContent[j][2] = k})

\* C29: when setup-database.js has finished, what it submitted is the
\* statements of the file, each once, whole and in file order, and it exits
\* with 0 exactly when no submitted statement failed.
C29_EveryStatementSubmitted ==
  (setup.script = "setup-database.js" /\ setup.pc = "finished")
  => /\ Len(setup.sent) = FileStatementCount
     /\ \A k \in 1..Len(setup.sent) : SqlOf(setup.sent[k]) = FileStatement(k)
     /\ (setup.output = "exit 0") <=> (CountResponses("ok") = Len(setup.responses))

====
